---- MODULE Spec2Model ----
(***************************************************************************)
(* State-machine model of c7n/resources/datapipeline.py:                   *)
(*   DataPipeline.augment / _datapipeline_info / process_tags and          *)
(*   Delete.process / Delete.process_pipeline.                             *)
(*                                                                         *)
(* Strings that the code takes apart (error messages, pipeline ids, field  *)
(* keys) are sequences of characters.  Message characters are naturals:    *)
(* SP is the space, the character o (1..NumPipes) is the one-character id  *)
(* of the o-th pipeline, every other number is some other non-space        *)
(* character.  Descriptor keys are sequences of one-letter strings.        *)
(***************************************************************************)
EXTENDS Integers, Sequences, FiniteSets, TLC

\* ------------------------------------------------------------------ bounds
NumPipes == 41
GonePerChunk == 1
MaxAttempts == 3
DelFailCand == 3
MaxDelete == 5
Period == 3
SmallLen == 2
MaxFields == 2

\* ------------------------------------------------------- program constants
\* the list is handed on whole, as one chunk
ChunkSize_whole == NumPipes + 1

ChunkSize == 20
MaxWorkers == 2
SP == 0

\* a non-space character that occurs in no pipeline id
WordChar == NumPipes + 2
\* the id of a pipeline that is in no resource list
StaleId == <<NumPipes + 1>>

VARIABLES
    op,         \* public operation the caller invoked: "none", "augment", "delete"
    mainpc,     \* position of the calling thread
    mainExc,    \* exception the caller is propagating ("" for none)
    unit,       \* the units of work handed to the executor, in submission order
    desc,       \* heap: descriptor object -> its key/value mapping
    resources,  \* the caller's resource list: a sequence of descriptor objects
    ret,        \* the list augment returned
    deleted,    \* remote side: ids whose delete_pipeline call succeeded
    log,        \* records written through self.log.exception
    prev        \* history: the heap and the remote's answers of an earlier augment

vars == <<op, mainpc, mainExc, unit, desc, resources, ret, deleted, log, prev>>

\* ------------------------------------------------------------ descriptors
K_id == <<"i", "d">>
K_Tags == <<"T", "a", "g", "s">>

Objs == 1..NumPipes

\* lengths of the resource list handed to augment
Lens == {0, 1, ChunkSize + 1, NumPipes}

InitDesc(o) == (K_id :> <<o>>)

IdOf(o) == desc[o][K_id]

Range(s) == {s[x] : x \in DOMAIN s}

SetKey(d, key, v) ==
    [x \in (DOMAIN d) \cup {key} |-> IF x = key THEN v ELSE d[x]]

\* ------------------------------------------------------------ str methods
RECURSIVE LStrip(_)
LStrip(s) == IF s # <<>> /\ Head(s) = SP THEN LStrip(Tail(s)) ELSE s

RECURSIVE RStrip(_)
RStrip(s) ==
    IF s # <<>> /\ s[Len(s)] = SP THEN RStrip(SubSeq(s, 1, Len(s) - 1)) ELSE s

Strip(s) == RStrip(LStrip(s))

LastSep(s) ==
    LET I == {x \in 1..Len(s) : s[x] = SP}
    IN  IF I = {} THEN 0 ELSE CHOOSE x \in I : \A y \in I : y <= x

\* s.rsplit(' ', 1)
RSplit1(s) ==
    IF LastSep(s) = 0 THEN <<s>>
    ELSE <<SubSeq(s, 1, LastSep(s) - 1), SubSeq(s, LastSep(s) + 1, Len(s))>>

\* --------------------------------------------------------------- chunking
RECURSIVE chunks(_, _)
chunks(seq, size) ==
    IF seq = <<>> THEN <<>>
    ELSE IF Len(seq) <= size THEN <<seq>>
    ELSE <<SubSeq(seq, 1, size)>> \o chunks(SubSeq(seq, size + 1, Len(seq)), size)

\* ------------------------------------------------------------- remote API
\* describe_pipelines response for a set of existing ids
RemoteTags(id) == <<[key |-> "owner", value |-> id]>>

RemoteFields(id) ==
    << [key |-> <<"@", "s">>, stringValue |-> "ok"],
       [key |-> <<"n">>, stringValue |-> "x"] >>

Description(id) ==
    [pipelineId |-> id, tags |-> RemoteTags(id), fields |-> RemoteFields(id)]

AllIds == [o \in 1..Len(resources) |-> IdOf(resources[o])]

DescribeResponse(ids) ==
    LET want == SelectSeq(AllIds, LAMBDA x : x \in ids)
    IN  [pipelineDescriptionList |-> [x \in DOMAIN want |-> Description(want[x])]]

NotFoundMsg(id) == <<WordChar, WordChar, SP>> \o id

\* ids the remote may report as no longer existing, per chunk
GoneOf(pipe_set) ==
    {IdOf(pipe_set[x]) : x \in {y \in DOMAIN pipe_set : y <= GonePerChunk}}

\* messages of a PipelineNotFound rejection that names one of the ids
Messages(ids) ==
    {NotFoundMsg(id) : id \in ids} \cup {NotFoundMsg(id) \o <<SP>> : id \in ids}

\* messages of a PipelineNotFound rejection that name no requested id
BadMessages(ids) ==
    {NotFoundMsg(StaleId), <<WordChar>>} \cup Messages(ids)

\* pipelines whose delete_pipeline call may be rejected
DelFailObjs == {o \in Objs : o <= DelFailCand}

DelCodes == {"Throttled", "AccessDenied"}

\* ------------------------------------------------------------ retry policy
\* the retry policy built for a code the remote never sends
RetryCodes_misnamed == {"Throttling"}

RetryCodes == {"Throttled"}

NoErr == [code |-> "", msg |-> <<>>]
NoRes == [none |-> <<>>]

\* ---------------------------------------------------------- units of work
NewUnit(pipe_set, pipeline) ==
    [st |-> "queued", pc |-> "-", pipe_set |-> pipe_set, pipeline |-> pipeline,
     pipe_map |-> <<>>, attempt |-> 0, calls |-> 0, waits |-> 0,
     throttles |-> 0, err |-> NoErr, results |-> NoRes,
     j |-> 0, exc |-> "", lastIds |-> {}, outcome |-> "", excised |-> {},
     rejected |-> <<>>, invs |-> 0]

Units == DOMAIN unit

\* no augment has been recorded
NoPrev == [runs |-> 0, desc |-> <<>>, resp |-> <<>>]

Running == {i \in Units : unit[i].st = "running"}
Queued == {i \in Units : unit[i].st = "queued"}

Init ==
    /\ op = "none"
    /\ mainpc = "idle"
    /\ mainExc = ""
    /\ unit = <<>>
    /\ resources \in {[o \in 1..n |-> o] : n \in Lens}
    /\ desc = [o \in Objs |-> InitDesc(o)]
    /\ ret = <<>>
    /\ deleted = {}
    /\ log = {}
    /\ prev = NoPrev

\* ------------------------------------------------- process_tags (pure parts)
\* the map built from the whole list instead of the unit's own chunk
PipeMap_all(pipe_set) ==
    [id \in {IdOf(resources[x]) : x \in DOMAIN resources} |->
        resources[CHOOSE x \in DOMAIN resources : IdOf(resources[x]) = id]]

\* pipe_map = {pipe['id']: pipe for pipe in pipe_set}; a later descriptor
\* with the same id replaces an earlier one
PipeMap(pipe_set) ==
    [id \in {IdOf(pipe_set[x]) : x \in DOMAIN pipe_set} |->
        pipe_set[CHOOSE x \in DOMAIN pipe_set :
                    /\ IdOf(pipe_set[x]) = id
                    /\ \A y \in DOMAIN pipe_set : IdOf(pipe_set[y]) = id => y <= x]]

\* the offending id is read but not removed
Pop_keep(m, key) == m

Pop(m, key) == [x \in (DOMAIN m) \ {key} |-> m[x]]

\* a fresh invocation of the retry policy: its attempt counter, and the
\* calls, backoff waits and Throttled failures it has seen
NewFrame(u) ==
    [u EXCEPT !.attempt = 1, !.calls = 0, !.waits = 0, !.throttles = 0]

DropFrame(u) ==
    [u EXCEPT !.attempt = 0, !.calls = 0, !.waits = 0, !.throttles = 0]

\* results = retry(client.describe_pipelines, ...): one more invocation of
\* the retry policy by this unit
Invoke(u) == NewFrame([u EXCEPT !.invs = @ + 1])

\* an exception leaves the unit of work
Raise(u, e) ==
    DropFrame([u EXCEPT !.st = "raised", !.exc = e, !.err = NoErr])

\* first statements of process_tags
process_tags(u) ==
    Invoke([u EXCEPT !.st = "running", !.pc = "attempt",
                       !.pipe_map = PipeMap(u.pipe_set)])

\* the call is made with the ids of the whole chunk
Called_all(u, outcome) ==
    [u EXCEPT !.calls = @ + 1,
              !.lastIds = {IdOf(u.pipe_set[x]) : x \in DOMAIN u.pipe_set},
              !.outcome = outcome, !.rejected = <<>>]

\* the call client.describe_pipelines(pipelineIds=list(pipe_map.keys())) and
\* how the remote answered it
Called(u, outcome) ==
    [u EXCEPT !.calls = @ + 1, !.lastIds = DOMAIN u.pipe_map,
              !.outcome = outcome, !.rejected = <<>>]

\* the retry policy on an error of the wrapped call
retry(u, e) ==
    IF e.code \in RetryCodes /\ u.attempt < MaxAttempts
    THEN [u EXCEPT !.pc = "backoff"]
    ELSE [u EXCEPT !.pc = "except", !.err = e]

\* every ClientError is taken for a recoverable one: the loop goes on
except_clause_swallow(u) ==
    LET parts == RSplit1(Strip(u.err.msg))
    IN  IF u.err.code # "PipelineNotFound"
        THEN Invoke([u EXCEPT !.pc = "attempt", !.err = NoErr])
        ELSE IF Len(parts) # 2 THEN Raise(u, "ValueError")
        ELSE IF parts[2] \notin DOMAIN u.pipe_map THEN Raise(u, "KeyError")
        ELSE LET v == [u EXCEPT !.pipe_map = Pop(@, parts[2]),
                                !.excised = @ \cup {parts[2]},
                                !.rejected = parts[2],
                                !.err = NoErr]
             IN  IF DOMAIN v.pipe_map = {}
                 THEN [v EXCEPT !.results = [TagDescriptions |-> <<>>],
                                !.pc = "for"]
                 ELSE Invoke([v EXCEPT !.pc = "attempt"])

\* the loop goes on after the last id was removed
except_clause_noshort(u) ==
    LET parts == RSplit1(Strip(u.err.msg))
    IN  IF u.err.code # "PipelineNotFound" THEN Raise(u, u.err.code)
        ELSE IF Len(parts) # 2 THEN Raise(u, "ValueError")
        ELSE IF parts[2] \notin DOMAIN u.pipe_map THEN Raise(u, "KeyError")
        ELSE Invoke([u EXCEPT !.pipe_map = Pop(@, parts[2]),
                              !.excised = @ \cup {parts[2]},
                              !.rejected = parts[2],
                              !.err = NoErr,
                              !.pc = "attempt"])

\* pipe_map.pop(lb_name, None): a token that is no key is passed over
except_clause_lenient(u) ==
    LET parts == RSplit1(Strip(u.err.msg))
        name == parts[Len(parts)]
    IN  IF u.err.code # "PipelineNotFound" THEN Raise(u, u.err.code)
        ELSE LET v == [u EXCEPT !.pipe_map = Pop(@, name),
                                !.excised = @ \cup (DOMAIN u.pipe_map \cap {name}),
                                !.rejected = name,
                                !.err = NoErr]
             IN  IF DOMAIN v.pipe_map = {}
                 THEN [v EXCEPT !.results = [TagDescriptions |-> <<>>],
                                !.pc = "for"]
                 ELSE Invoke([v EXCEPT !.pc = "attempt"])

\* except ClientError as e: ... of process_tags
except_clause(u) ==
    LET parts == RSplit1(Strip(u.err.msg))
    IN  IF u.err.code # "PipelineNotFound" THEN Raise(u, u.err.code)
        ELSE IF Len(parts) # 2 THEN Raise(u, "ValueError")
        ELSE IF parts[2] \notin DOMAIN u.pipe_map THEN Raise(u, "KeyError")
        ELSE LET v == [u EXCEPT !.pipe_map = Pop(@, parts[2]),
                                !.excised = @ \cup {parts[2]},
                                !.rejected = parts[2],
                                !.err = NoErr]
             IN  IF DOMAIN v.pipe_map = {}
                 THEN [v EXCEPT !.results = [TagDescriptions |-> <<>>],
                                !.pc = "for"]
                 ELSE Invoke([v EXCEPT !.pc = "attempt"])

\* for pipe_desc in results['pipelineDescriptionList']
for_header(u) ==
    IF "pipelineDescriptionList" \in DOMAIN u.results
    THEN DropFrame([u EXCEPT !.pc = "merge", !.j = 1])
    ELSE Raise(u, "KeyError")

ConvTags(tags) ==
    [x \in DOMAIN tags |-> [Key |-> tags[x].key, Value |-> tags[x].value]]

\* '@' in key
StartsWithAt_contains(key) == \E x \in DOMAIN key : key[x] = "@"

\* key.startswith('@')
StartsWithAt(key) == key # <<>> /\ Head(key) = "@"

RECURSIVE SetFields(_, _)
SetFields(d, fields) ==
    IF fields = <<>> THEN d
    ELSE LET f == Head(fields)
         IN  SetFields(IF StartsWithAt(f.key)
                       THEN SetKey(d, Tail(f.key), f.stringValue)
                       ELSE d,
                       Tail(fields))

\* the tags are added to the Tags the descriptor already has
Enrich_extend(d, pipe_desc) ==
    SetFields(SetKey(d, K_Tags,
                     (IF K_Tags \in DOMAIN d THEN d[K_Tags] ELSE <<>>)
                         \o ConvTags(pipe_desc.tags)),
              pipe_desc.fields)

\* body of the for loop, applied to the descriptor pipe_map[pipelineId]
Enrich(d, pipe_desc) ==
    SetFields(SetKey(d, K_Tags, ConvTags(pipe_desc.tags)), pipe_desc.fields)

\* descriptions paired with the chunk's descriptors by position
MergeTarget_byPosition(u, pipe_desc) == u.pipe_set[u.j]

\* the descriptor object the loop body writes to
MergeTarget(u, pipe_desc) == u.pipe_map[pipe_desc.pipelineId]

\* ------------------------------------------------------------- dispatcher
\* the executor starts the oldest pending unit while a worker is free
CanStart(i) ==
    /\ i \in Queued
    /\ \A x \in Queued : i <= x
    /\ Cardinality(Running) < MaxWorkers

\* the executor is left without waiting for its workers
PoolQuiescent_nowait == TRUE

\* __exit__ of the executor: shutdown(wait=True)
PoolQuiescent == Running = {} /\ Queued = {}

\* only the descriptors that were enriched are handed back
AugmentResult_enriched(rs) == SelectSeq(rs, LAMBDA o : K_Tags \in DOMAIN desc[o])

\* what augment hands back to its caller
AugmentResult(rs) == rs

Upd(i, u) == unit' = [unit EXCEPT ![i] = u]

\* DataPipeline.augment -> _datapipeline_info: the executor is entered and
\* w.map submits one process_tags unit per chunk
augment ==
    /\ mainpc = "idle"
    /\ op' = "augment"
    /\ mainpc' = "collect"
    /\ unit' = LET cs == chunks(resources, ChunkSize)
               IN  [i \in DOMAIN cs |-> NewUnit(cs[i], 0)]
    /\ UNCHANGED <<mainExc, desc, resources, ret, deleted, log, prev>>

\* Delete.process(pipelines): one process_pipeline unit per pipeline; the
\* pipelines are the first n resources
process ==
    /\ mainpc = "idle"
    /\ op' = "delete"
    /\ mainpc' = "collect"
    /\ \E n \in 0..MaxDelete :
          /\ n <= Len(resources)
          /\ unit' = [i \in 1..n |-> NewUnit(<<>>, resources[i])]
    /\ UNCHANGED <<mainExc, desc, resources, ret, deleted, log, prev>>

WorkerStart(i) ==
    /\ CanStart(i)
    /\ Upd(i, IF op = "augment" THEN process_tags(unit[i])
              ELSE [unit[i] EXCEPT !.st = "running", !.pc = "delete"])
    /\ UNCHANGED <<op, mainpc, mainExc, desc, resources, ret, deleted, log, prev>>

AtPc(i, pc) == i \in Running /\ unit[i].pc = pc

\* an error that retry let through reaches the except clause of process_tags
Handled(u) == IF u.pc = "except" THEN except_clause(u) ELSE u

\* describe_pipelines succeeds: results = retry(...); break
DescribeOk(i) ==
    /\ AtPc(i, "attempt")
    /\ Upd(i, [Called(unit[i], "ok") EXCEPT
                  !.results = DescribeResponse(DOMAIN unit[i].pipe_map),
                  !.pc = "for"])
    /\ UNCHANGED <<op, mainpc, mainExc, desc, resources, ret, deleted, log, prev>>

DescribeThrottled(i) ==
    /\ AtPc(i, "attempt")
    /\ Upd(i, Handled(retry([Called(unit[i], "Throttled") EXCEPT
                                 !.throttles = @ + 1],
                            [code |-> "Throttled", msg |-> <<>>])))
    /\ UNCHANGED <<op, mainpc, mainExc, desc, resources, ret, deleted, log, prev>>

DescribeNotFound(i) ==
    /\ AtPc(i, "attempt")
    /\ \E m \in Messages(GoneOf(unit[i].pipe_set) \cap DOMAIN unit[i].pipe_map) :
          Upd(i, Handled(retry(Called(unit[i], "PipelineNotFound"),
                               [code |-> "PipelineNotFound", msg |-> m])))
    /\ UNCHANGED <<op, mainpc, mainExc, desc, resources, ret, deleted, log, prev>>

DescribeDenied(i) ==
    /\ AtPc(i, "attempt")
    /\ Upd(i, Handled(retry(Called(unit[i], "AccessDenied"),
                            [code |-> "AccessDenied", msg |-> <<>>])))
    /\ UNCHANGED <<op, mainpc, mainExc, desc, resources, ret, deleted, log, prev>>

\* the backoff sleep of the retry policy, then the next attempt
Backoff(i) ==
    /\ AtPc(i, "backoff")
    /\ Upd(i, [unit[i] EXCEPT !.waits = @ + 1, !.attempt = @ + 1,
                              !.pc = "attempt"])
    /\ UNCHANGED <<op, mainpc, mainExc, desc, resources, ret, deleted, log, prev>>

ForHeader(i) ==
    /\ AtPc(i, "for")
    /\ Upd(i, for_header(unit[i]))
    /\ UNCHANGED <<op, mainpc, mainExc, desc, resources, ret, deleted, log, prev>>

DescList(u) == u.results["pipelineDescriptionList"]

\* one iteration of the for loop
Merge(i) ==
    /\ AtPc(i, "merge")
    /\ unit[i].j <= Len(DescList(unit[i]))
    /\ LET pd == DescList(unit[i])[unit[i].j]
       IN  /\ pd.pipelineId \in DOMAIN unit[i].pipe_map
           /\ desc' = [desc EXCEPT ![MergeTarget(unit[i], pd)] = Enrich(@, pd)]
    /\ Upd(i, [unit[i] EXCEPT !.j = @ + 1])
    /\ UNCHANGED <<op, mainpc, mainExc, resources, ret, deleted, log, prev>>

\* the loop is exhausted: process_tags returns None
Return(i) ==
    /\ AtPc(i, "merge")
    /\ unit[i].j > Len(DescList(unit[i]))
    /\ Upd(i, [unit[i] EXCEPT !.st = "done"])
    /\ UNCHANGED <<op, mainpc, mainExc, desc, resources, ret, deleted, log, prev>>

\* Delete.process_pipeline: client.delete_pipeline(pipelineId=pipeline['id'])
DeleteOk(i) ==
    /\ AtPc(i, "delete")
    /\ deleted' = deleted \cup {IdOf(unit[i].pipeline)}
    /\ Upd(i, [unit[i] EXCEPT !.calls = @ + 1, !.st = "done"])
    /\ UNCHANGED <<op, mainpc, mainExc, desc, resources, ret, log, prev>>

\* a Throttled delete_pipeline is tried again
delete_failed_retry(u, e) ==
    IF e.code \in RetryCodes THEN [u EXCEPT !.pc = "delete"]
    ELSE [u EXCEPT !.err = e, !.pc = "log"]

\* the ClientError is not caught
delete_failed_reraise(u, e) == Raise(u, e.code)

\* what process_pipeline does with a ClientError of delete_pipeline
delete_failed(u, e) == [u EXCEPT !.err = e, !.pc = "log"]

DeleteFail(i) ==
    /\ AtPc(i, "delete")
    /\ unit[i].pipeline \in DelFailObjs
    /\ \E c \in DelCodes :
          Upd(i, delete_failed([unit[i] EXCEPT !.calls = @ + 1],
                               [code |-> c, msg |-> <<>>]))
    /\ UNCHANGED <<op, mainpc, mainExc, desc, resources, ret, deleted, log, prev>>

\* self.log.exception(...), then process_pipeline returns None
LogException(i) ==
    /\ AtPc(i, "log")
    /\ log' = log \cup {[id |-> IdOf(unit[i].pipeline), code |-> unit[i].err.code]}
    /\ Upd(i, [unit[i] EXCEPT !.st = "done"])
    /\ UNCHANGED <<op, mainpc, mainExc, desc, resources, ret, deleted, prev>>

\* list(w.map(...)): the caller takes the results in submission order and is
\* through when every unit has returned
CollectEnd ==
    /\ mainpc = "collect"
    /\ \A i \in Units : unit[i].st = "done"
    /\ mainpc' = "exit"
    /\ UNCHANGED <<op, mainExc, unit, desc, resources, ret, deleted, log, prev>>

\* the first unit, in submission order, that raised: its exception is
\* re-raised in the caller, and map cancels the units still pending
CollectRaise ==
    /\ mainpc = "collect"
    /\ \E r \in Units :
          /\ unit[r].st = "raised"
          /\ \A i \in Units : i < r => unit[i].st = "done"
          /\ mainExc' = unit[r].exc
    /\ mainpc' = "exit"
    /\ unit' = [i \in DOMAIN unit |->
                  IF unit[i].st = "queued"
                  THEN [unit[i] EXCEPT !.st = "cancelled"] ELSE unit[i]]
    /\ UNCHANGED <<op, desc, resources, ret, deleted, log, prev>>

\* the with block is left without an exception; the operation returns
ExitReturn ==
    /\ mainpc = "exit"
    /\ mainExc = ""
    /\ PoolQuiescent
    /\ mainpc' = "returned"
    /\ ret' = IF op = "augment" THEN AugmentResult(resources) ELSE ret
    /\ UNCHANGED <<op, mainExc, unit, desc, resources, deleted, log, prev>>

\* the with block is left by an exception, which reaches the caller
ExitRaise ==
    /\ mainpc = "exit"
    /\ mainExc # ""
    /\ PoolQuiescent
    /\ mainpc' = "raised"
    /\ UNCHANGED <<op, mainExc, unit, desc, resources, ret, deleted, log, prev>>

\* positions in the executor's submission order
MaxUnits ==
    LET nc == (NumPipes + ChunkSize - 1) \div ChunkSize
    IN  IF nc > MaxDelete THEN nc ELSE MaxDelete

UnitIds == 1..MaxUnits

Next ==
    \/ augment
    \/ process
    \/ \E i \in UnitIds : WorkerStart(i)
    \/ \E i \in UnitIds : DescribeOk(i)
    \/ \E i \in UnitIds : DescribeThrottled(i)
    \/ \E i \in UnitIds : DescribeNotFound(i)
    \/ \E i \in UnitIds : DescribeDenied(i)
    \/ \E i \in UnitIds : Backoff(i)
    \/ \E i \in UnitIds : ForHeader(i)
    \/ \E i \in UnitIds : Merge(i)
    \/ \E i \in UnitIds : Return(i)
    \/ \E i \in UnitIds : DeleteOk(i)
    \/ \E i \in UnitIds : DeleteFail(i)
    \/ \E i \in UnitIds : LogException(i)
    \/ CollectRaise
    \/ CollectEnd
    \/ ExitReturn
    \/ ExitRaise

Spec == Init /\ [][Next]_vars

\* ------------------------------------------------- chunking of any list
\* augment applied to a list of any length up to NumPipes, with all its
\* descriptors distinct or with the first Period descriptors repeating
AnyList(n, p) == [x \in 1..n |-> ((x - 1) % p) + 1]

InitChunks ==
    /\ op = "none"
    /\ mainpc = "idle"
    /\ mainExc = ""
    /\ unit = <<>>
    /\ resources \in {AnyList(n, p) : n \in 0..NumPipes, p \in {Period, NumPipes}}
    /\ desc = [o \in Objs |-> InitDesc(o)]
    /\ ret = <<>>
    /\ deleted = {}
    /\ log = {}
    /\ prev = NoPrev

NextChunks ==
    \/ augment
    \/ \E i \in UnitIds : WorkerStart(i)

SpecChunks == InitChunks /\ [][NextChunks]_vars

\* ------------------------------------ augment called twice, any field list
\* fields the remote may put into a description: keys with and without the
\* leading '@', the bare '@', and the pipeline's own '@id'
K_atid == <<"@", "i", "d">>

Templates ==
    { [key |-> <<"@", "s">>, val |-> "ok"], [key |-> <<"@", "s">>, val |-> "x"],
      [key |-> <<"n">>, val |-> "x"], [key |-> <<"@">>, val |-> "x"],
      [key |-> <<"n", "@">>, val |-> "x"], [key |-> K_atid, val |-> "x"] }

FieldLists == UNION {[1..n -> Templates] : n \in 0..MaxFields}

FieldsFor(fl, id) ==
    [x \in DOMAIN fl |->
        [key |-> fl[x].key,
         stringValue |-> IF fl[x].key = K_atid THEN id ELSE fl[x].val]]

\* describe_pipelines response for a set of existing ids, every description
\* carrying the fields fl
DescribeResponseWith(ids, fl) ==
    LET want == SelectSeq(AllIds, LAMBDA x : x \in ids)
    IN  [pipelineDescriptionList |->
            [x \in DOMAIN want |->
                [pipelineId |-> want[x], tags |-> RemoteTags(want[x]),
                 fields |-> FieldsFor(fl, want[x])]]]

InitTwice ==
    /\ op = "none"
    /\ mainpc = "idle"
    /\ mainExc = ""
    /\ unit = <<>>
    /\ resources \in {[o \in 1..n |-> o] : n \in 1..SmallLen}
    /\ desc = [o \in Objs |-> InitDesc(o)]
    /\ ret = <<>>
    /\ deleted = {}
    /\ log = {}
    /\ prev = NoPrev

\* what the remote answered to unit i
Answers(i) ==
    [excised |-> unit[i].excised, outcome |-> unit[i].outcome,
     results |-> unit[i].results]

\* the remote is stable: in a second augment it rejects the ids it rejected
\* in the first and then gives the response it gave in the first
DescribeAny(i) ==
    /\ AtPc(i, "attempt")
    /\ \E fl \in FieldLists :
          LET res == DescribeResponseWith(DOMAIN unit[i].pipe_map, fl)
          IN  /\ prev.runs > 0 =>
                    /\ DOMAIN unit[i].pipe_map \cap prev.resp[i].excised = {}
                    /\ prev.resp[i].outcome = "ok"
                    /\ res = prev.resp[i].results
              /\ Upd(i, [Called(unit[i], "ok") EXCEPT !.results = res,
                                                     !.pc = "for"])
    /\ UNCHANGED <<op, mainpc, mainExc, desc, resources, ret, deleted, log, prev>>

DescribeGone(i) ==
    /\ DescribeNotFound(i)
    /\ prev.runs > 0 => unit'[i].excised \subseteq prev.resp[i].excised

\* augment has returned or raised; its caller calls it again with the same
\* list
Again ==
    /\ op = "augment"
    /\ mainpc \in {"returned", "raised"}
    /\ prev.runs = 0
    /\ prev' = [runs |-> 1, desc |-> desc,
                resp |-> [i \in DOMAIN unit |-> Answers(i)]]
    /\ op' = "none"
    /\ mainpc' = "idle"
    /\ mainExc' = ""
    /\ unit' = <<>>
    /\ UNCHANGED <<desc, resources, ret, deleted, log>>

NextTwice ==
    \/ augment
    \/ \E i \in UnitIds : WorkerStart(i)
    \/ \E i \in UnitIds : DescribeAny(i)
    \/ \E i \in UnitIds : DescribeGone(i)
    \/ \E i \in UnitIds : ForHeader(i)
    \/ \E i \in UnitIds : Merge(i)
    \/ \E i \in UnitIds : Return(i)
    \/ CollectRaise
    \/ CollectEnd
    \/ ExitReturn
    \/ ExitRaise
    \/ Again

SpecTwice == InitTwice /\ [][NextTwice]_vars

\* --------------------------------------------- a remote that breaks its word
InitAdv ==
    /\ op = "none"
    /\ mainpc = "idle"
    /\ mainExc = ""
    /\ unit = <<>>
    /\ resources \in {[o \in 1..n |-> o] : n \in (1..SmallLen) \cup {ChunkSize + 1}}
    /\ desc = [o \in Objs |-> InitDesc(o)]
    /\ ret = <<>>
    /\ deleted = {}
    /\ log = {}
    /\ prev = NoPrev

\* messages of a PipelineNotFound rejection whose last token is no key of
\* the working set, or that have no space before their last token
StaleMessages(u) ==
    BadMessages({})
        \cup {<<>>, <<SP, SP>>}
        \cup {NotFoundMsg(id) : id \in u.excised}
        \cup {<<SP>> \o id : id \in DOMAIN u.pipe_map}

DescribeStale(i) ==
    /\ AtPc(i, "attempt")
    /\ \E m \in StaleMessages(unit[i]) :
          Upd(i, Handled(retry(Called(unit[i], "StaleNotFound"),
                               [code |-> "PipelineNotFound", msg |-> m])))
    /\ UNCHANGED <<op, mainpc, mainExc, desc, resources, ret, deleted, log, prev>>

\* ids the working set does not hold: the excised ones and a foreign one
ForeignIds(u) == u.excised \cup {StaleId}

\* describe_pipelines succeeds, and its result holds, first or last, a
\* description of a pipeline that was not asked for
DescribeForeign(i) ==
    /\ AtPc(i, "attempt")
    /\ \E id \in ForeignIds(unit[i]) : \E front \in BOOLEAN :
          LET good == DescribeResponse(DOMAIN unit[i].pipe_map).pipelineDescriptionList
              list == IF front THEN <<Description(id)>> \o good
                      ELSE good \o <<Description(id)>>
          IN  Upd(i, [Called(unit[i], "ok") EXCEPT
                         !.results = [pipelineDescriptionList |-> list],
                         !.pc = "for"])
    /\ UNCHANGED <<op, mainpc, mainExc, desc, resources, ret, deleted, log, prev>>

\* pipe = pipe_map[pipe_desc['pipelineId']] with an id that is no key
MergeKeyError(i) ==
    /\ AtPc(i, "merge")
    /\ unit[i].j <= Len(DescList(unit[i]))
    /\ DescList(unit[i])[unit[i].j].pipelineId \notin DOMAIN unit[i].pipe_map
    /\ Upd(i, Raise(unit[i], "KeyError"))
    /\ UNCHANGED <<op, mainpc, mainExc, desc, resources, ret, deleted, log, prev>>

NextAdv ==
    \/ augment
    \/ \E i \in UnitIds : WorkerStart(i)
    \/ \E i \in UnitIds : DescribeOk(i)
    \/ \E i \in UnitIds : DescribeThrottled(i)
    \/ \E i \in UnitIds : DescribeNotFound(i)
    \/ \E i \in UnitIds : DescribeDenied(i)
    \/ \E i \in UnitIds : DescribeStale(i)
    \/ \E i \in UnitIds : DescribeForeign(i)
    \/ \E i \in UnitIds : Backoff(i)
    \/ \E i \in UnitIds : ForHeader(i)
    \/ \E i \in UnitIds : Merge(i)
    \/ \E i \in UnitIds : MergeKeyError(i)
    \/ \E i \in UnitIds : Return(i)
    \/ CollectRaise
    \/ CollectEnd
    \/ ExitReturn
    \/ ExitRaise

SpecAdv == InitAdv /\ [][NextAdv]_vars

\* =================================================================== claims
ChunkObjs(i) == Range(unit[i].pipe_set)

Finished(i) == unit[i].st \in {"done", "raised"}

Enriched(o) == K_Tags \in DOMAIN desc[o]

Untouched(o) == desc[o] = InitDesc(o)

\* the descriptor's Tags are the description's tags, renamed to Key/Value
TagsFrom(d, pd) ==
    /\ K_Tags \in DOMAIN d
    /\ Len(d[K_Tags]) = Len(pd.tags)
    /\ \A y \in DOMAIN pd.tags :
          d[K_Tags][y] = [Key |-> pd.tags[y].key, Value |-> pd.tags[y].value]

\* unit i issues a describe_pipelines call in this step
CallStep(i) ==
    /\ i \in Running
    /\ unit[i].pc = "attempt"
    /\ unit'[i] # unit[i]

\* ----------------------------------------------------------------------- C1
C1_Merged ==
    \A i \in Units :
        (op = "augment" /\ unit[i].st = "done") =>
            /\ \A id \in DOMAIN unit[i].pipe_map : Enriched(unit[i].pipe_map[id])
            /\ \A x \in DOMAIN DescList(unit[i]) :
                  LET pd == DescList(unit[i])[x]
                  IN  pd.pipelineId \in DOMAIN unit[i].pipe_map =>
                          TagsFrom(desc[unit[i].pipe_map[pd.pipelineId]], pd)

C1_NextCall ==
    \A i \in Units :
        CallStep(i) =>
            /\ unit'[i].lastIds = DOMAIN unit[i].pipe_map
            /\ unit'[i].lastIds \cap unit[i].excised = {}
            /\ unit[i].rejected # <<>> =>
                  /\ unit[i].rejected \in unit[i].lastIds
                  /\ unit'[i].lastIds = unit[i].lastIds \ {unit[i].rejected}

\* C1: after a PipelineNotFound rejection naming an id X of the working set
\* that leaves the set non-empty, the next describe_pipelines call of the
\* chunk carries the previous ids minus X, no later call carries an excised
\* id, and once process_tags has returned every surviving descriptor has the
\* Tags of its description in the result.
C1_Excision == []C1_Merged /\ [][C1_NextCall]_vars

C1_Witness ==
    \E i \in Units :
        /\ op = "augment"
        /\ unit[i].st = "done"
        /\ unit[i].excised # {}
        /\ Cardinality(DOMAIN unit[i].pipe_map) > 1
        /\ \A id \in DOMAIN unit[i].pipe_map : Enriched(unit[i].pipe_map[id])

\* ----------------------------------------------------------------------- C2
\* C2: when PipelineNotFound rejections have removed every id of a chunk's
\* working set, the unit of work ends without an error and has modified no
\* descriptor.
C2_EmptyBatch ==
    \A i \in Units :
        (op = "augment" /\ Finished(i) /\ unit[i].excised # {}
                        /\ DOMAIN unit[i].pipe_map = {}) =>
            /\ unit[i].st = "done"
            /\ \A o \in ChunkObjs(i) : Untouched(o)

\* ----------------------------------------------------------------------- C3
\* C3: when a chunk's describe_pipelines fails with AccessDenied, augment
\* still returns the resource list, and every descriptor of a chunk whose
\* describe succeeded is enriched.
C3_ChunkIsolation ==
    (/\ op = "augment"
     /\ mainpc \in {"returned", "raised"}
     /\ \E i \in Units : unit[i].outcome = "AccessDenied") =>
        /\ mainpc = "returned"
        /\ ret = resources
        /\ \A i \in Units :
              unit[i].outcome = "ok" =>
                  \A id \in DOMAIN unit[i].pipe_map :
                      Enriched(unit[i].pipe_map[id])

\* ----------------------------------------------------------------------- C4
DeleteFailed(i) == unit[i].err.code # ""

\* C4: Delete.process never raises, and when it returns a delete_pipeline
\* call has been made for every pipeline of the list, each either deleted
\* or, if its call failed with a ClientError, recorded through the log.
C4_DeleteIsolation ==
    op = "delete" =>
        /\ mainpc # "raised"
        /\ mainExc = ""
        /\ \A i \in Units : unit[i].st \notin {"raised", "cancelled"}
        /\ mainpc = "returned" =>
              \A i \in Units :
                  /\ unit[i].st = "done"
                  /\ unit[i].calls >= 1
                  /\ IF DeleteFailed(i)
                     THEN [id |-> IdOf(unit[i].pipeline),
                           code |-> unit[i].err.code] \in log
                     ELSE IdOf(unit[i].pipeline) \in deleted

C4_Witness ==
    /\ op = "delete"
    /\ mainpc = "returned"
    /\ Len(unit) = 5
    /\ DeleteFailed(3)
    /\ \A i \in {1, 2, 4, 5} : IdOf(unit[i].pipeline) \in deleted

\* ----------------------------------------------------------------------- C5
\* C5: the list augment returns is the list it was given: the same
\* descriptor objects in the same order, the descriptors of excised ids
\* among them.
C5_InventoryPreserved ==
    (op = "augment" /\ mainpc = "returned") =>
        /\ ret = resources
        /\ Len(ret) \in Lens
        /\ \A x \in DOMAIN ret : ret[x] = x /\ desc[ret[x]][K_id] = <<x>>
        /\ \A i \in Units : \A o \in ChunkObjs(i) :
              desc[o][K_id] \in unit[i].excised => o \in Range(ret)

C5_Witness ==
    /\ op = "augment"
    /\ mainpc = "returned"
    /\ \E i \in Units :
          /\ unit[i].excised # {}
          /\ \E o \in ChunkObjs(i) : Enriched(o)

\* ----------------------------------------------------------------------- C6
\* C6: the descriptor of an excised id is never written: it keeps the
\* mapping it had on entry to process_tags, without Tags and without fields.
C6_ExcisedUntouched ==
    \A i \in Units : \A o \in ChunkObjs(i) :
        (op = "augment" /\ IdOf(o) \in unit[i].excised) =>
            /\ Untouched(o)
            /\ o \notin Range(unit[i].pipe_map)

C6_Witness ==
    \E i \in Units :
        /\ op = "augment"
        /\ unit[i].excised # {}
        /\ unit[i].pc = "merge"
        /\ unit[i].j > 2

\* ----------------------------------------------------------------------- C7
C7_Propagated ==
    \A i \in Units :
        unit[i].outcome = "AccessDenied" =>
            /\ unit[i].st = "raised"
            /\ unit[i].exc = "AccessDenied"
            /\ DOMAIN unit[i].pipe_map = unit[i].lastIds
            /\ \A o \in ChunkObjs(i) : Untouched(o)

C7_NoMore ==
    \A i \in Units : unit[i].st = "raised" => unit'[i] = unit[i]

\* C7: a describe_pipelines error other than Throttled and PipelineNotFound
\* leaves process_tags at once: the unit has raised that error, makes no
\* further call, its working set is the id set of the failed call, and no
\* descriptor of its chunk has been written.
C7_OtherError == []C7_Propagated /\ [][C7_NoMore]_vars

C7_Witness ==
    \E i \in Units :
        /\ unit[i].st = "raised"
        /\ unit[i].exc = "AccessDenied"
        /\ unit[i].excised # {}
        /\ \E x \in Units : x # i /\ \E o \in ChunkObjs(x) : Enriched(o)

\* ----------------------------------------------------------------------- C8
C8_Disjoint ==
    op = "augment" =>
        /\ UNION {ChunkObjs(i) : i \in Units} = Range(resources)
        /\ \A i \in Units :
              /\ Range(unit[i].pipe_map) \subseteq ChunkObjs(i)
              /\ \A x \in Units : i # x => ChunkObjs(i) \cap ChunkObjs(x) = {}

C8_Writes ==
    \A o \in Objs :
        desc'[o] # desc[o] =>
            \E i \in Running :
                /\ o \in ChunkObjs(i)
                /\ unit'[i].j = unit[i].j + 1
                /\ \A x \in Running : x # i => o \notin Range(unit[x].pipe_map)

\* C8: the chunks of the units cover the resource list and are pairwise
\* disjoint, a unit's working set holds only descriptors of its own chunk,
\* and every write to a descriptor is made by the unit that owns it while no
\* other running unit holds it.
C8_NoSharedWrites == []C8_Disjoint /\ [][C8_Writes]_vars

C8_Witness ==
    \E i \in Units : \E x \in Units :
        /\ i # x
        /\ unit[i].st = "running" /\ unit[i].pc = "merge" /\ unit[i].j > 1
        /\ unit[x].st = "running" /\ unit[x].pc = "merge" /\ unit[x].j > 1

\* ----------------------------------------------------------------------- C9
\* C9: at most MaxWorkers units execute at a time, and when augment or
\* Delete.process has returned or raised, no unit is executing or pending.
C9_ScopedPool ==
    /\ Cardinality(Running) <= 2
    /\ mainpc \in {"returned", "raised"} => Running = {} /\ Queued = {}

C9_Witness ==
    /\ mainpc = "raised"
    /\ \E i \in Units : \E x \in Units : \E y \in Units :
          /\ i < x
          /\ unit[i].st = "raised"
          /\ unit[x].st = "done"
          /\ unit[y].st = "cancelled"

\* ---------------------------------------------------------------------- C10
C10_Returned ==
    \A i \in Units :
        (unit[i].st = "running" /\ unit[i].pc = "for"
            /\ unit[i].outcome = "ok" /\ unit[i].throttles = 2) =>
            /\ unit[i].calls = 3
            /\ unit[i].waits = 2
            /\ DOMAIN unit[i].pipe_map = unit[i].lastIds
            /\ {DescList(unit[i])[x].pipelineId : x \in DOMAIN DescList(unit[i])}
                  = unit[i].lastIds

C10_Retried ==
    \A i \in Units :
        (CallStep(i) /\ unit'[i].outcome \in {"Throttled", "ok"}) =>
            /\ unit'[i].pipe_map = unit[i].pipe_map
            /\ (unit'[i].outcome = "Throttled" /\ unit[i].throttles < 2) =>
                  unit'[i].st = "running" /\ unit'[i].pc = "backoff"

\* C10: a describe_pipelines call that fails with Throttled for the first or
\* second time in one retry invocation is followed by a backoff wait, not by
\* an error; when the call then succeeds after two Throttled failures, the
\* response reaches process_tags after exactly three calls and two waits,
\* and the working set is the one the calls were made with.
C10_ThrottlingRecovery == []C10_Returned /\ [][C10_Retried]_vars

C10_Witness ==
    \E i \in Units :
        /\ unit[i].pc = "for"
        /\ unit[i].outcome = "ok"
        /\ unit[i].throttles = 2
        /\ unit[i].calls = 3
        /\ unit[i].waits = 2

\* ---------------------------------------------------------------------- C11
RECURSIVE Concat(_)
Concat(ss) == IF ss = <<>> THEN <<>> ELSE Head(ss) \o Concat(Tail(ss))

\* C11: the chunks augment hands to process_tags, concatenated in submission
\* order, are the resource list itself (each descriptor in the same place,
\* as often as in the list); no chunk is empty or longer than 20; and a list
\* of N descriptors gives ceil(N/20) chunks.
C11_Chunking ==
    op = "augment" =>
        /\ Concat([i \in DOMAIN unit |-> unit[i].pipe_set]) = resources
        /\ \A i \in Units : Len(unit[i].pipe_set) \in 1..20
        /\ Len(unit) * 20 >= Len(resources)
        /\ (Len(unit) - 1) * 20 < Len(resources) \/ Len(resources) = 0
        /\ Len(resources) = 0 => Len(unit) = 0

C11_Witness ==
    /\ op = "augment"
    /\ Len(resources) = 40
    /\ Len(unit) = 2
    /\ resources[1] = resources[4]
    /\ unit[2].pipe_set[1] = resources[21]
    /\ unit[2].st = "running"

\* ---------------------------------------------------------------------- C12
\* the remote answered unit i in the second augment as in the first
SameAnswers(i) ==
    /\ prev.runs = 1
    /\ i \in DOMAIN prev.resp
    /\ unit[i].excised = prev.resp[i].excised
    /\ unit[i].outcome = prev.resp[i].outcome
    /\ unit[i].outcome = "ok" => unit[i].results = prev.resp[i].results

\* C12: when process_tags has run a second time on a chunk and the remote
\* rejected the same ids and gave the same response as the first time, every
\* descriptor of the chunk has the mapping (Tags, fields, id) it had after
\* the first run.
C12_Idempotent ==
    \A i \in Units :
        (op = "augment" /\ Finished(i) /\ SameAnswers(i)) =>
            \A o \in ChunkObjs(i) : desc[o] = prev.desc[o]

C12_Witness ==
    \E i \in Units :
        /\ op = "augment"
        /\ unit[i].st = "done"
        /\ SameAnswers(i)
        /\ unit[i].excised # {}
        /\ \E o \in ChunkObjs(i) :
              /\ Enriched(o)
              /\ <<"s">> \in DOMAIN desc[o]
              /\ desc[o] = prev.desc[o]

\* ---------------------------------------------------------------------- C13
\* unit i runs one iteration of the for loop in this step
MergeStep(i) ==
    /\ i \in Running
    /\ unit[i].pc = "merge"
    /\ unit'[i].j = unit[i].j + 1

C13_Step ==
    \A i \in Units :
        MergeStep(i) =>
            LET pd == DescList(unit[i])[unit[i].j]
                o == unit[i].pipe_map[pd.pipelineId]
                fs == pd.fields
                At(x) == fs[x].key # <<>> /\ fs[x].key[1] = "@"
                Rest(x) == SubSeq(fs[x].key, 2, Len(fs[x].key))
                AtKeys == {Rest(x) : x \in {y \in DOMAIN fs : At(y)}}
            IN  /\ DOMAIN desc'[o] = DOMAIN desc[o] \cup {K_Tags} \cup AtKeys
                /\ \A x \in DOMAIN fs :
                      (/\ At(x)
                       /\ \A y \in DOMAIN fs :
                             (y > x /\ At(y)) => Rest(y) # Rest(x)) =>
                          desc'[o][Rest(x)] = fs[x].stringValue
                /\ \A k \in DOMAIN desc[o] \ (AtKeys \cup {K_Tags}) :
                      desc'[o][k] = desc[o][k]
                /\ \A o2 \in Objs \ {o} : desc'[o2] = desc[o2]

\* C13: one iteration of the for loop gives the descriptor, for every field
\* whose key begins with '@', the key without that '@' with the field's
\* stringValue (the last such field when several have the same key); a field
\* whose key does not begin with '@' adds no key and changes no value, and
\* no other descriptor is written.
C13_FieldExtraction == [][C13_Step]_vars

C13_Witness ==
    \E i \in Units :
        /\ unit[i].st = "running"
        /\ unit[i].pc = "merge"
        /\ unit[i].j > 1
        /\ LET pd == DescList(unit[i])[1]
               o == unit[i].pipe_map[pd.pipelineId]
           IN  /\ Len(pd.fields) = 2
               /\ pd.fields[1].key = <<"n", "@">>
               /\ pd.fields[2].key = <<"@", "s">>
               /\ DOMAIN desc[o] = {K_id, K_Tags, <<"s">>}
               /\ desc[o][<<"s">>] = pd.fields[2].stringValue

\* ---------------------------------------------------------------------- C14
C14_Raised ==
    \A i \in Units :
        unit[i].outcome = "StaleNotFound" =>
            /\ unit[i].st = "raised"
            /\ unit[i].exc \in {"KeyError", "ValueError"}
            /\ DOMAIN unit[i].pipe_map = unit[i].lastIds
            /\ unit[i].rejected = <<>>

C14_NoRepeat ==
    \A i \in Units :
        /\ unit[i].outcome = "StaleNotFound" => unit'[i] = unit[i]
        /\ (CallStep(i) /\ unit[i].outcome = "PipelineNotFound") =>
              /\ unit'[i].lastIds \subseteq unit[i].lastIds
              /\ unit'[i].lastIds # unit[i].lastIds

\* C14: after a PipelineNotFound rejection whose message names no current
\* key of the working set, or has no space before its last token, the unit
\* has raised (KeyError or ValueError), its working set is the id set of
\* the rejected call, and it takes no further step; and a call that follows
\* a PipelineNotFound rejection carries strictly fewer ids than the
\* rejected one.
C14_FailFast == []C14_Raised /\ [][C14_NoRepeat]_vars

C14_Witness ==
    \E i \in Units :
        /\ unit[i].outcome = "StaleNotFound"
        /\ unit[i].st = "raised"
        /\ unit[i].exc = "KeyError"
        /\ unit[i].excised # {}
        /\ Cardinality(unit[i].lastIds) = 19

\* ---------------------------------------------------------------------- C15
\* number of distinct ids of unit i's chunk
NumIds(i) == Cardinality({IdOf(o) : o \in ChunkObjs(i)})

C15_Bound ==
    \A i \in Units : op = "augment" => unit[i].invs <= NumIds(i)

C15_Iteration ==
    \A i \in Units :
        CallStep(i) =>
            \/ unit'[i].st = "raised"
            \/ unit'[i].pc = "for"
            \/ unit'[i].pc = "backoff" /\ unit'[i].invs = unit[i].invs
            \/ /\ unit'[i].pc = "attempt"
               /\ unit'[i].invs = unit[i].invs + 1
               /\ DOMAIN unit'[i].pipe_map \subseteq DOMAIN unit[i].pipe_map
               /\ Cardinality(DOMAIN unit'[i].pipe_map)
                     = Cardinality(DOMAIN unit[i].pipe_map) - 1

\* C15: whatever the remote answers, a unit never invokes the retry-wrapped
\* describe_pipelines more often than its chunk has distinct ids: a call
\* ends process_tags with an error, leaves the loop, is repeated by the
\* retry policy within the same invocation, or is followed by a new
\* invocation with exactly one id fewer.
C15_LoopBound == []C15_Bound /\ [][C15_Iteration]_vars

C15_Witness ==
    \E i \in Units :
        /\ Len(unit[i].pipe_set) = 2
        /\ unit[i].invs = 2
        /\ unit[i].throttles = 1
        /\ unit[i].excised # {}
        /\ unit[i].pc = "backoff"

\* ---------------------------------------------------------------------- C16
\* the result unit i received holds a description of an id that is no key
\* of its working set
HasForeign(i) ==
    /\ unit[i].outcome = "ok"
    /\ "pipelineDescriptionList" \in DOMAIN unit[i].results
    /\ \E x \in DOMAIN DescList(unit[i]) :
          DescList(unit[i])[x].pipelineId \notin DOMAIN unit[i].pipe_map

\* C16: when the result of describe_pipelines holds a description whose
\* pipelineId is no key of the working set, process_tags still ends without
\* an error, and every description of a key has been merged into its
\* descriptor.
C16_ForeignSkipped ==
    \A i \in Units :
        (op = "augment" /\ Finished(i) /\ HasForeign(i)) =>
            /\ unit[i].st = "done"
            /\ \A x \in DOMAIN DescList(unit[i]) :
                  LET pd == DescList(unit[i])[x]
                  IN  pd.pipelineId \in DOMAIN unit[i].pipe_map =>
                          TagsFrom(desc[unit[i].pipe_map[pd.pipelineId]], pd)

\* ---------------------------------------------------------------------- C17
ChunkIds(i) == {IdOf(o) : o \in ChunkObjs(i)}

C17_Keys ==
    \A i \in Units :
        op = "augment" =>
            /\ DOMAIN unit[i].pipe_map \subseteq ChunkIds(i)
            /\ \A id \in DOMAIN unit[i].pipe_map :
                  /\ unit[i].pipe_map[id] \in ChunkObjs(i)
                  /\ IdOf(unit[i].pipe_map[id]) = id
            /\ Len(unit[i].pipe_set) <= 20

C17_Calls ==
    \A i \in Units :
        /\ i \in Running =>
              DOMAIN unit'[i].pipe_map \subseteq DOMAIN unit[i].pipe_map
        /\ CallStep(i) =>
              /\ unit'[i].lastIds = DOMAIN unit[i].pipe_map
              /\ unit'[i].lastIds # {}
              /\ Cardinality(unit'[i].lastIds) <= 20

\* C17: the keys of a unit's working set are ids of its own chunk, each
\* mapped to the chunk's descriptor with that id; while the unit runs the
\* key set never gains a key; and every describe_pipelines call carries
\* exactly the keys the working set has at that moment, at least one and at
\* most 20.
C17_WorkingSet == []C17_Keys /\ [][C17_Calls]_vars

C17_Witness ==
    \E i \in Units :
        /\ unit[i].st = "running"
        /\ unit[i].pc = "for"
        /\ unit[i].outcome = "ok"
        /\ Len(unit[i].pipe_set) = 20
        /\ Cardinality(unit[i].lastIds) = 19
        /\ unit[i].lastIds = DOMAIN unit[i].pipe_map

\* ---------------------------------------------------------------------- C18
C18_Once ==
    op = "delete" =>
        /\ \A i \in Units :
              /\ unit[i].pipeline = resources[i]
              /\ unit[i].calls <= 1
              /\ (unit[i].st = "done" \/ unit[i].pc = "log") => unit[i].calls = 1
              /\ unit[i].st \in {"queued", "cancelled"} => unit[i].calls = 0
              /\ \A x \in Units : x # i => unit[x].pipeline # unit[i].pipeline
        /\ mainpc = "returned" =>
              /\ \A i \in Units : unit[i].st = "done" /\ unit[i].calls = 1
              /\ Cardinality(deleted)
                    + Cardinality({i \in Units : DeleteFailed(i)}) = Len(unit)

C18_NoSecondCall ==
    op = "delete" =>
        /\ \A i \in Running :
              /\ unit'[i].calls >= unit[i].calls
              /\ unit[i].calls = 1 => unit'[i].calls = 1 /\ unit'[i].pc # "delete"
        /\ deleted' # deleted =>
              \E i \in Running :
                  /\ unit[i].calls = 0
                  /\ unit'[i].calls = 1
                  /\ IdOf(unit[i].pipeline) \notin deleted
                  /\ deleted' = deleted \cup {IdOf(unit[i].pipeline)}

\* C18: in Delete.process every pipeline of the list has its own unit of
\* work; a unit makes no second delete_pipeline call after its first,
\* whether that succeeded or failed (Throttled included); every successful
\* call deletes a pipeline not deleted before; and when process has
\* returned every unit has made exactly one call.
C18_OneCallEach == []C18_Once /\ [][C18_NoSecondCall]_vars

C18_Witness ==
    /\ op = "delete"
    /\ mainpc = "returned"
    /\ Len(unit) = 5
    /\ unit[1].err.code = "Throttled" /\ unit[1].calls = 1
    /\ unit[2].err.code = "AccessDenied" /\ unit[2].calls = 1
    /\ \A i \in {3, 4, 5} : IdOf(unit[i].pipeline) \in deleted /\ unit[i].calls = 1

====
